---- MODULE Spec2Model ----
(***************************************************************************)
(* Model of the recording-and-trim orchestrator of owlcms/obsreplays:      *)
(* the OBS websocket client (internal/recording/configurator.go) and the   *)
(* recorder that drives it (internal/recording/recorder.go, and the older  *)
(* copy of the recorder kept in unnamed/part_002).                         *)
(*                                                                         *)
(* Strings are sequences of tokens: a token is an atomic piece of text     *)
(* ("Camera", ".flv", "1", " ", "_", ...).  The Go string functions are    *)
(* written over such sequences; an index is a token index.                 *)
(***************************************************************************)
EXTENDS Integers, Sequences, FiniteSets, TLC

VARIABLES
    variant,        \* which copy of StopRecording is built: "recorder" or "part_002"
    conn,           \* client.conn: "closed", "open", "dropped" (peer closed / read failed)
    requestID,      \* client.requestID
    wire,           \* messages written by WriteJSON and not yet processed by OBS
    inbox,          \* messages sent by OBS and not yet returned by ReadMessage
    currentOpChan,  \* client.currentOpChan, a buffered channel of capacity 1
    listener,       \* the goroutine running listen(): "none", "running", "exited"
    crashed,        \* the process died on a panic
    pc,             \* position of the event-handling goroutine
    call,           \* the TriggerHotkey call blocked on <-currentOpChan, or NoCall
    arg,            \* the event being handled (the running operation's arguments)
    loc,            \* local variables of the running StopRecording
    st,             \* package state: CurrentAthlete, CurrentLiftType, ...
    fs,             \* the filesystem: path -> content, for the files that exist
    locked,         \* per file: how many more transcoder runs fail on it
    dirs,           \* session directories that exist under the video directory
    now,            \* wall clock, in seconds
    opCount,        \* number of operations invoked so far
    envLeft,        \* environment perturbations still allowed
    answers,        \* history: the requests OBS answered, each with its status code
    delivered,      \* history: requestIds whose op 7 response reached handleMessage
    bg,             \* the other goroutines: a concurrent ForceStopRecordings, state writes
    trace           \* history: the observable events, in order

vars == <<variant, conn, requestID, wire, inbox, currentOpChan, listener,
          crashed, pc, call, arg, loc, st, fs, locked, dirs, now, opCount, envLeft,
          answers, delivered, bg, trace>>


----------------------------------------------------------------------------
(* Bounds of the model *)

MaxOps == 2
MaxEnv == 1
MaxLock == 1
MaxTakes == 1
MaxWrites == 1

(* Program constants *)

SuccessCode == 100
LeadMs == 5000
SettleSeconds == 3
CleanupSeconds == 5

----------------------------------------------------------------------------
(* Strings as token sequences: the functions of Go's strings and filepath  *)

SetMin(S) == CHOOSE x \in S : \A y \in S : x <= y
SetMax(S) == CHOOSE x \in S : \A y \in S : x >= y

\* 1-based positions at which p occurs in s
Occurs(s, p) ==
    {i \in 1..(Len(s) - Len(p) + 1) : SubSeq(s, i, i + Len(p) - 1) = p}

Contains(s, p) == Occurs(s, p) # {}

HasPrefix(s, p) == Len(s) >= Len(p) /\ SubSeq(s, 1, Len(p)) = p

HasSuffix(s, p) == Len(s) >= Len(p) /\ SubSeq(s, Len(s) - Len(p) + 1, Len(s)) = p

TrimPrefix(s, p) == IF HasPrefix(s, p) THEN SubSeq(s, Len(p) + 1, Len(s)) ELSE s

TrimSuffix(s, p) == IF HasSuffix(s, p) THEN SubSeq(s, 1, Len(s) - Len(p)) ELSE s

\* strings.LastIndex: 0-based index of the last occurrence, -1 when there is none
LastIndex(s, p) == IF Occurs(s, p) = {} THEN -1 ELSE SetMax(Occurs(s, p)) - 1

\* s[from:] with a 0-based index
SliceFrom(s, from) == SubSeq(s, from + 1, Len(s))

RECURSIVE Split(_, _)
Split(s, sep) ==
    IF ~Contains(s, sep) THEN <<s>>
    ELSE LET i == SetMin(Occurs(s, sep))
         IN  <<SubSeq(s, 1, i - 1)>> \o Split(SubSeq(s, i + Len(sep), Len(s)), sep)

\* strings.ReplaceAll for a one-token old and new
ReplaceAll(s, old, new) == [i \in 1..Len(s) |-> IF s[i] = old THEN new ELSE s[i]]

Join(dir, name) == dir \o <<"/">> \o name

Base(path) ==
    IF ~Contains(path, <<"/">>) THEN path
    ELSE SliceFrom(path, LastIndex(path, <<"/">>) + 1)

----------------------------------------------------------------------------
(* Inputs *)

Camera == <<"Camera">>
Flv == <<".flv">>
Mp4 == <<".mp4">>

captureDir == <<"Captures">>
videoDir == <<"videos">>

\* the directory entries OBS may leave in the capture directory, in the
\* order os.ReadDir returns them (sorted by file name)
NameOrder ==
    << <<"2024_", "Camera", "1", ".flv">>,
       <<"Camera", "1", ".flv">>,
       <<"Camera", "1", ".mp4">>,
       <<"Camera", "2", ".flv">>,
       <<"Camera", "2", ".mp4">>,
       <<"Replay", ".flv">> >>

RawSets ==
    { {},
      { <<"Camera", "1", ".flv">> },
      { <<"Camera", "1", ".flv">>, <<"Camera", "2", ".flv">> },
      { <<"2024_", "Camera", "1", ".flv">>, <<"Replay", ".flv">> },
      { <<"2024_", "Camera", "1", ".flv">>, <<"Camera", "1", ".flv">> } }

AttemptEvents ==
    { [athlete |-> <<"Jane", " ", "Doe">>, liftType |-> "SNATCH",
       attempt |-> 1, startTimeMs |-> 1000],
      [athlete |-> <<"Li", "_", "Na">>, liftType |-> "CLEANJERK",
       attempt |-> 2, startTimeMs |-> 0] }

StopTimes == {9000, 9700, 5500}

Sessions == { <<>>, <<"Group", " ", "A">> }

\* the directory entries StopRecording takes for camera files
IsCameraFile(name) == HasSuffix(name, Flv) /\ Contains(name, Camera)

NoCall == [key |-> "none", rid |-> 0]
NoLoc == [sourceFiles |-> <<>>, trimmedFiles |-> <<>>, i |-> 0,
          startTime |-> 0, stopTime |-> 0,
          trimDuration |-> 0, fullSessionDir |-> <<>>, baseFileName |-> <<>>]
NoBackground == [force |-> "none", call |-> NoCall, writes |-> 0]

----------------------------------------------------------------------------
(* History *)

\* httpServer.SendStatus(phase, message)
SendStatus(phase, msg) == [n |-> opCount, e |-> "status", phase |-> phase, msg |-> msg]

Ret(err) == [n |-> opCount, e |-> "return", err |-> err]

----------------------------------------------------------------------------
(* The capture tool (OBS): the other end of the websocket *)

Hello == [kind |-> "json", typed |-> TRUE, op |-> 0, rid |-> 0, code |-> 0,
          hasComment |-> FALSE]
Identified == [kind |-> "json", typed |-> TRUE, op |-> 2, rid |-> 0, code |-> 0,
               hasComment |-> FALSE]
Event == [kind |-> "json", typed |-> TRUE, op |-> 5, rid |-> 0, code |-> 0,
          hasComment |-> FALSE]
Untyped == [kind |-> "json", typed |-> FALSE, op |-> 0, rid |-> 0, code |-> 0,
            hasComment |-> FALSE]
Garbage == [kind |-> "garbage", typed |-> FALSE, op |-> 0, rid |-> 0, code |-> 0,
            hasComment |-> FALSE]
ReadError == [kind |-> "readerr", typed |-> FALSE, op |-> 0, rid |-> 0, code |-> 0,
              hasComment |-> FALSE]
RequestResponse(rid, code, hasComment) ==
    [kind |-> "json", typed |-> TRUE, op |-> 7, rid |-> rid, code |-> code,
     hasComment |-> hasComment]

RejectCodes == {600}

\* the content of a file: the capture it was made from (its path and the stop
\* request that produced it), its container and the seconds cut from its start
RawContent(name, rid) ==
    [origin |-> Join(captureDir, name), take |-> rid, container |-> "flv", cut |-> 0]

\* OBS saves the replay buffers of the cameras when it executes the stop hotkey
OBSWriteCaptures(names, lk, rid) ==
    /\ fs' = [p \in DOMAIN fs \cup {Join(captureDir, nm) : nm \in names} |->
                 IF \E nm \in names : p = Join(captureDir, nm)
                 THEN RawContent(Base(p), rid) ELSE fs[p]]
    /\ locked' = [p \in DOMAIN locked \cup {Join(captureDir, nm) : nm \in names} |->
                 IF \E nm \in names : p = Join(captureDir, nm)
                 THEN lk[Base(p)] ELSE locked[p]]

\* the stop hotkeys OBS has executed so far
Takes == {a \in answers : a.key = "OBS_KEY_F8" /\ a.code = SuccessCode}

\* OBS answers the identify message
OBSIdentify ==
    /\ ~crashed /\ conn = "open" /\ wire # <<>> /\ Head(wire).op = 1
    /\ wire' = Tail(wire)
    /\ inbox' = Append(inbox, Identified)
    /\ UNCHANGED <<bg, variant, conn, requestID, currentOpChan, listener, crashed,
                   pc, call, arg, loc, st, fs, locked, dirs, now, opCount, envLeft,
                   answers, delivered, trace>>

\* OBS executes a hotkey request and answers it with code 100
OBSExecute ==
    /\ ~crashed /\ conn = "open" /\ wire # <<>> /\ Head(wire).op = 6
    /\ LET m == Head(wire) IN
       /\ wire' = Tail(wire)
       /\ inbox' = Append(inbox, RequestResponse(m.rid, SuccessCode, FALSE))
       /\ answers' = answers \cup {[rid |-> m.rid, key |-> m.key, code |-> SuccessCode]}
       /\ IF m.key = "OBS_KEY_F8" /\ Cardinality(Takes) < MaxTakes
          THEN \E names \in RawSets :
               \E lk \in [names -> 0..MaxLock] :
                  /\ \A nm \in names : ~IsCameraFile(nm) => lk[nm] = 0
                  /\ OBSWriteCaptures(names, lk, m.rid)
          ELSE UNCHANGED <<fs, locked>>
    /\ UNCHANGED <<bg, variant, conn, requestID, currentOpChan, listener, crashed,
                   pc, call, arg, loc, st, dirs, now, opCount, envLeft, delivered, trace>>

\* OBS rejects a hotkey request: a failure code, with or without a comment
OBSReject ==
    /\ ~crashed /\ conn = "open" /\ wire # <<>> /\ Head(wire).op = 6
    /\ envLeft > 0 /\ envLeft' = envLeft - 1
    /\ LET m == Head(wire) IN
       /\ wire' = Tail(wire)
       /\ \E code \in RejectCodes, hasComment \in BOOLEAN :
             /\ inbox' = Append(inbox, RequestResponse(m.rid, code, hasComment))
             /\ answers' = answers \cup {[rid |-> m.rid, key |-> m.key, code |-> code]}
    /\ UNCHANGED <<bg, variant, conn, requestID, currentOpChan, listener, crashed,
                   pc, call, arg, loc, st, fs, locked, dirs, now, opCount,
                   delivered, trace>>

\* OBS sends something the client does not expect: an event (op 5), a JSON
\* message without a numeric op, or a frame that is not JSON
OBSUnexpected ==
    /\ ~crashed /\ conn = "open"
    /\ envLeft > 0 /\ envLeft' = envLeft - 1
    /\ \E m \in {Event, Untyped, Garbage} : inbox' = Append(inbox, m)
    /\ UNCHANGED <<bg, variant, conn, requestID, wire, currentOpChan, listener,
                   crashed, pc, call, arg, loc, st, fs, locked, dirs, now, opCount,
                   answers, delivered, trace>>

\* the connection drops: what was written and not yet processed is lost, and
\* ReadMessage fails once the messages already received have been read
OBSDrop ==
    /\ ~crashed /\ conn = "open"
    /\ envLeft > 0 /\ envLeft' = envLeft - 1
    /\ conn' = "dropped"
    /\ wire' = <<>>
    /\ inbox' = Append(inbox, ReadError)
    /\ UNCHANGED <<bg, variant, requestID, currentOpChan, listener, crashed,
                   pc, call, arg, loc, st, fs, locked, dirs, now, opCount,
                   answers, delivered, trace>>

----------------------------------------------------------------------------
(* OBSWebSocketClient *)

\* an item of currentOpChan: the error value, and (history) the message it
\* was made from: from |-> "ack", "response" (to request rid) or "conn"
Item(err, from, rid) == [err |-> err, from |-> from, rid |-> rid]

\* handleMessage: what a decoded message makes the listener do
\*   panic: a type assertion fails; send: an item goes to currentOpChan
handleMessage(m) ==
    IF ~m.typed THEN [panic |-> TRUE, send |-> FALSE, item |-> Item("nil", "ack", 0)]
    ELSE IF m.op = 2 THEN [panic |-> FALSE, send |-> TRUE, item |-> Item("nil", "ack", 0)]
    ELSE IF m.op = 7 THEN
        IF m.code = SuccessCode
        THEN [panic |-> FALSE, send |-> TRUE, item |-> Item("nil", "response", m.rid)]
        ELSE IF m.hasComment
             THEN [panic |-> FALSE, send |-> TRUE,
                   item |-> Item("operation failed", "response", m.rid)]
             ELSE [panic |-> TRUE, send |-> FALSE, item |-> Item("nil", "response", m.rid)]
    ELSE [panic |-> FALSE, send |-> FALSE, item |-> Item("nil", "ack", 0)]

\* one iteration of the loop of listen(); a send on the full channel blocks
listen ==
    /\ ~crashed /\ listener = "running" /\ inbox # <<>>
    /\ LET m == Head(inbox) IN
       /\ inbox' = Tail(inbox)
       /\ CASE m.kind = "readerr" ->
                 /\ currentOpChan = <<>>
                 /\ currentOpChan' = <<Item("read error", "conn", 0)>>
                 /\ listener' = "exited"
                 /\ UNCHANGED <<crashed, delivered>>
            [] m.kind = "garbage" ->
                 /\ currentOpChan = <<>>
                 /\ currentOpChan' = <<Item("unmarshal error", "conn", 0)>>
                 /\ listener' = "exited"
                 /\ UNCHANGED <<crashed, delivered>>
            [] OTHER ->
                 LET eff == handleMessage(m) IN
                 /\ eff.send => currentOpChan = <<>>
                 /\ currentOpChan' = IF eff.send THEN <<eff.item>> ELSE currentOpChan
                 /\ crashed' = eff.panic
                 /\ delivered' = IF m.typed /\ m.op = 7 /\ ~eff.panic
                                 THEN delivered \cup {m.rid} ELSE delivered
                 /\ UNCHANGED listener
    /\ UNCHANGED <<bg, variant, conn, requestID, wire, pc, call, arg, loc, st,
                   fs, locked, dirs, now, opCount, envLeft, answers, trace>>

\* the message built by sendIdentify: {"op":1,"d":{"rpcVersion":1}}.  d holds
\* each JSON field of the data object as <<value>>, or <<>> when it is absent
sendIdentify ==
    [op |-> 1, key |-> "none",
     d |-> [rpcVersion |-> <<1>>, requestType |-> <<>>, keyId |-> <<>>]]

\* the message built by TriggerHotkey(keyID); keyId is requestData.keyId
Request(keyID) ==
    [op |-> 6, key |-> keyID,
     d |-> [rpcVersion |-> <<>>, requestType |-> <<"TriggerHotkeyByKeySequence">>,
            keyId |-> <<keyID>>]]

\* sendMessage writing the counter without incrementing it
sendMessageStale(message, reaches) ==
    /\ requestID' = requestID
    /\ wire' = IF reaches
               THEN Append(wire,
                      [op |-> message.op, rid |-> requestID + 1, key |-> message.key,
                       d |-> [rpcVersion |-> message.d.rpcVersion,
                              requestType |-> message.d.requestType,
                              keyId |-> message.d.keyId,
                              requestId |-> <<ToString(requestID + 1)>>]])
               ELSE wire

\* sendMessage: under the mutex, the counter is incremented, written into the
\* data object of the message as the string requestId, and the message
\* written; reaches says whether the write reaches the wire.  rid and key
\* repeat d.requestId and d.keyId for the reader of the message
sendMessage(message, reaches) ==
    /\ requestID' = requestID + 1
    /\ wire' = IF reaches
               THEN Append(wire,
                      [op |-> message.op, rid |-> requestID + 1, key |-> message.key,
                       d |-> [rpcVersion |-> message.d.rpcVersion,
                              requestType |-> message.d.requestType,
                              keyId |-> message.d.keyId,
                              requestId |-> <<ToString(requestID + 1)>>]])
               ELSE wire

\* the outcomes of conn.WriteJSON: "sent", "lost" (written into a connection
\* the peer has left), "error"
WriteOutcomes == IF conn = "open" THEN {"sent"} ELSE {"lost", "error"}

\* Connect: dial, start the listener, send the identify message
Connect ==
    /\ pc = "boot"
    /\ conn' = "open"
    /\ listener' = "running"
    /\ inbox' = <<Hello>>
    /\ sendMessage(sendIdentify, TRUE)
    /\ pc' = "idle"
    /\ UNCHANGED <<bg, variant, currentOpChan, crashed, call, arg, loc, st,
                   fs, locked, dirs, now, opCount, envLeft, answers, delivered, trace>>

----------------------------------------------------------------------------
(* The recorder: the calls of TriggerHotkey and what follows each *)

\* the call sites of TriggerHotkey and the key each passes
Sites == {"S_F6", "S_F7", "X_F8", "X_F6", "F_F8"}

SiteKey(site) ==
    CASE site = "S_F6" -> "OBS_KEY_F6"
      [] site = "S_F7" -> "OBS_KEY_F7"
      [] site = "X_F8" -> "OBS_KEY_F8"
      [] site = "X_F6" -> "OBS_KEY_F6"
      [] site = "F_F8" -> "OBS_KEY_F8"

RecordingMessage(fullName, liftTypeKey, attemptNumber) ==
    <<"Recording: ">> \o ReplaceAll(fullName, "_", " ")
        \o <<" - ", liftTypeKey, " attempt ", ToString(attemptNumber)>>

\* StartRecording with the error of the reset call dropped
StartRecordingIgnoringReset(site, err) ==
    IF site = "S_F6"
    THEN [pc |-> "S_F7", out |-> <<>>]
    ELSE IF err # "nil"
         THEN [pc |-> "idle", out |-> <<Ret("failed to send F7 hotkey to OBS")>>]
         ELSE [pc |-> "idle",
               out |-> <<SendStatus("Recording",
                             RecordingMessage(arg.athlete, arg.liftType, arg.attempt)),
                         Ret("nil")>>]

\* StartRecording, after the TriggerHotkey call at `site` returned err:
\* the next position and the events published
StartRecording(site, err) ==
    IF site = "S_F6"
    THEN IF err # "nil"
         THEN [pc |-> "idle", out |-> <<Ret("failed to send F6 hotkey to OBS")>>]
         ELSE [pc |-> "S_F7", out |-> <<>>]
    ELSE IF err # "nil"
         THEN [pc |-> "idle", out |-> <<Ret("failed to send F7 hotkey to OBS")>>]
         ELSE [pc |-> "idle",
               out |-> <<SendStatus("Recording",
                             RecordingMessage(arg.athlete, arg.liftType, arg.attempt)),
                         Ret("nil")>>]

\* StopRecording with the error of the reset call dropped
StopRecordingIgnoringReset(site, err) ==
    IF site = "X_F8"
    THEN IF err # "nil"
         THEN [pc |-> "idle", out |-> <<Ret("failed to send F8 hotkey to OBS")>>]
         ELSE [pc |-> "X_F6", out |-> <<>>]
    ELSE [pc |-> "X_sleep", out |-> <<>>]

\* StopRecording going on to the reset call whatever the stop call returned
StopRecordingIgnoringStop(site, err) ==
    IF site = "X_F8"
    THEN [pc |-> "X_F6", out |-> <<>>]
    ELSE IF err # "nil"
         THEN [pc |-> "idle", out |-> <<Ret("failed to send F6 hotkey to OBS")>>]
         ELSE [pc |-> "X_sleep", out |-> <<>>]

\* StopRecording, after the TriggerHotkey call at `site` returned err
StopRecordingCalls(site, err) ==
    IF site = "X_F8"
    THEN IF err # "nil"
         THEN [pc |-> "idle", out |-> <<Ret("failed to send F8 hotkey to OBS")>>]
         ELSE [pc |-> "X_F6", out |-> <<>>]
    ELSE IF err # "nil"
         THEN [pc |-> "idle", out |-> <<Ret("failed to send F6 hotkey to OBS")>>]
         ELSE [pc |-> "X_sleep", out |-> <<>>]

\* ForceStopRecordings returning the error of its call
ForceStopRecordingsRaising(site, err) ==
    [pc |-> "idle",
     out |-> <<Ret(IF err # "nil" THEN "failed to send F8 hotkey to OBS" ELSE "nil")>>]

\* ForceStopRecordings, after its TriggerHotkey call returned: an error is logged
ForceStopRecordings(site, err) == [pc |-> "idle", out |-> <<Ret("nil")>>]

AfterCall(site, err) ==
    IF site \in {"S_F6", "S_F7"} THEN StartRecording(site, err)
    ELSE IF site \in {"X_F8", "X_F6"} THEN StopRecordingCalls(site, err)
    ELSE ForceStopRecordings(site, err)

\* the start time recorded with the stop time of the previous attempt kept
RecordStartKeepingStop(site, err) ==
    IF site = "S_F7" /\ err = "nil"
    THEN [st EXCEPT !.LastStartTime = arg.startTimeMs]
    ELSE st

\* the attempt-start event handler records the start time once StartRecording
\* has succeeded, and clears the stop time of the previous attempt
RecordStart(site, err) ==
    IF site = "S_F7" /\ err = "nil"
    THEN [st EXCEPT !.LastStartTime = arg.startTimeMs, !.LastTimerStopTime = 0]
    ELSE st

\* TriggerHotkey up to the receive: the request is built and sendMessage called;
\* a write error is returned to the caller at once
TriggerHotkeySend ==
    /\ ~crashed /\ pc \in Sites /\ call = NoCall
    /\ \E w \in WriteOutcomes :
          /\ sendMessage(Request(SiteKey(pc)), w = "sent")
          /\ IF w = "error"
             THEN LET next == AfterCall(pc, "write error") IN
                  /\ pc' = next.pc
                  /\ trace' = trace \o
                        <<[n |-> opCount, e |-> "call", key |-> SiteKey(pc),
                           rid |-> requestID + 1, err |-> "write error",
                           from |-> "conn", src |-> 0]>> \o next.out
                  /\ st' = RecordStart(pc, "write error")
                  /\ UNCHANGED call
             ELSE /\ call' = [key |-> SiteKey(pc), rid |-> requestID + 1]
                  /\ trace' = Append(trace, [n |-> opCount, e |-> "send",
                                             key |-> SiteKey(pc), rid |-> requestID + 1])
                  /\ UNCHANGED <<pc, st>>
    /\ UNCHANGED <<bg, variant, conn, inbox, currentOpChan, listener, crashed,
                   arg, loc, fs, locked, dirs, now, opCount, envLeft, answers, delivered>>

\* TriggerHotkey from the receive on: return <-client.currentOpChan
TriggerHotkeyReceive ==
    /\ ~crashed /\ pc \in Sites /\ call # NoCall
    /\ currentOpChan # <<>>
    /\ LET item == Head(currentOpChan)
           next == AfterCall(pc, item.err)
       IN  /\ currentOpChan' = Tail(currentOpChan)
           /\ call' = NoCall
           /\ pc' = next.pc
           /\ trace' = trace \o
                 <<[n |-> opCount, e |-> "call", key |-> call.key, rid |-> call.rid,
                    err |-> item.err, from |-> item.from, src |-> item.rid]>> \o next.out
           /\ st' = RecordStart(pc, item.err)
    /\ UNCHANGED <<bg, variant, conn, requestID, wire, inbox, listener, crashed,
                   arg, loc, fs, locked, dirs, now, opCount, envLeft, answers, delivered>>

----------------------------------------------------------------------------
(* The events delivered to the recorder *)

NoArg == [athlete |-> <<>>, liftType |-> "", attempt |-> 0, startTimeMs |-> 0]

\* AttemptStart{athlete, liftType, attemptNumber, startTimeMs}: the state is
\* updated and StartRecording(fullName, liftTypeKey, attemptNumber) called
OnAttemptStart ==
    /\ ~crashed /\ pc = "idle" /\ opCount < MaxOps
    /\ \E ev \in AttemptEvents :
          /\ arg' = ev
          /\ st' = [st EXCEPT !.CurrentAthlete = ev.athlete,
                              !.CurrentLiftType = ev.liftType,
                              !.CurrentAttempt = ev.attempt]
    /\ opCount' = opCount + 1
    /\ pc' = "S_F6"
    /\ trace' = Append(trace, [n |-> opCount + 1, e |-> "invoke", op |-> "start"])
    /\ UNCHANGED <<bg, variant, conn, requestID, wire, inbox, currentOpChan,
                   listener, crashed, call, loc, fs, locked, dirs, now, envLeft,
                   answers, delivered>>

\* DecisionGiven{stopTimeMs}: the stop time is stored and StopRecording called
OnDecision ==
    /\ ~crashed /\ pc = "idle" /\ opCount < MaxOps
    /\ \E t \in StopTimes : st' = [st EXCEPT !.LastTimerStopTime = t]
    /\ opCount' = opCount + 1
    /\ pc' = "X_F8"
    /\ loc' = NoLoc
    /\ trace' = Append(trace, [n |-> opCount + 1, e |-> "invoke", op |-> "stop"])
    /\ UNCHANGED <<bg, variant, conn, requestID, wire, inbox, currentOpChan,
                   listener, crashed, call, arg, fs, locked, dirs, now, envLeft,
                   answers, delivered>>

\* SessionChanged{name}
OnSessionChanged ==
    /\ ~crashed /\ pc = "idle"
    /\ st.CurrentSession = <<>>
    /\ \E name \in Sessions \ {<<>>} : st' = [st EXCEPT !.CurrentSession = name]
    /\ UNCHANGED <<bg, variant, conn, requestID, wire, inbox, currentOpChan,
                   listener, crashed, pc, call, arg, loc, fs, locked, dirs, now,
                   opCount, envLeft, answers, delivered, trace>>

\* ForceStopRecordings is called: with config.NoVideo set it only logs
\* (currentFileNames is never assigned), otherwise it triggers the stop hotkey
OnForceStop ==
    /\ ~crashed /\ pc = "idle" /\ opCount < MaxOps
    /\ opCount' = opCount + 1
    /\ \E NoVideo \in BOOLEAN :
       IF NoVideo
       THEN /\ pc' = "idle"
            /\ trace' = trace \o <<[n |-> opCount + 1, e |-> "invoke", op |-> "force"],
                                   [n |-> opCount + 1, e |-> "return", err |-> "nil"]>>
       ELSE /\ pc' = "F_F8"
            /\ trace' = Append(trace, [n |-> opCount + 1, e |-> "invoke", op |-> "force"])
    /\ UNCHANGED <<bg, variant, conn, requestID, wire, inbox, currentOpChan,
                   listener, crashed, call, arg, loc, st, fs, locked, dirs, now,
                   envLeft, answers, delivered>>

----------------------------------------------------------------------------
(* StopRecording after the two hotkeys: discovery, trimming, placement *)

\* the paths of the entries of a directory
Paths(dir, names) == [k \in 1..Len(names) |-> Join(dir, names[k])]

\* os.ReadDir(captureDir): the names of the entries, sorted
ReadDir(dir) == SelectSeq(NameOrder, LAMBDA nm : Join(dir, nm) \in DOMAIN fs)

\* recorder.go: the paths of the matching entries
SourceFiles(entries) ==
    Paths(captureDir, SelectSeq(entries, IsCameraFile))

\* part_002: the matching entries, each reduced to Camera<n>.flv
SimpleFileName(name) ==
    LET parts == Split(name, Camera)
        cameraNum == TrimSuffix(parts[2], Flv)
    IN  Camera \o cameraNum \o Flv

CameraFiles(entries) ==
    LET kept == SelectSeq(entries,
                          LAMBDA nm : IsCameraFile(nm) /\ Len(Split(nm, Camera)) > 1)
    IN  Paths(captureDir, [k \in 1..Len(kept) |-> SimpleFileName(kept[k])])

Discover(entries) ==
    IF variant = "recorder" THEN SourceFiles(entries) ELSE CameraFiles(entries)

\* the camera number and the trimmed file of a source file
CameraNum(sourceFile) ==
    IF variant = "recorder"
    THEN TrimSuffix(SliceFrom(sourceFile, LastIndex(sourceFile, Camera) + Len(Camera)), Flv)
    ELSE TrimPrefix(TrimSuffix(Base(sourceFile), Flv), Camera)

TrimmedFile(sourceFile) ==
    IF variant = "recorder"
    THEN Join(captureDir, Camera \o CameraNum(sourceFile) \o Mp4)
    ELSE Join(captureDir, TrimSuffix(Base(sourceFile), Flv) \o Mp4)

AttemptInfo ==
    ReplaceAll(st.CurrentAthlete, "_", " ")
        \o <<" - ", st.CurrentLiftType, " attempt ", ToString(st.CurrentAttempt)>>

TrimmingMessage(cameraNum) ==
    <<"Trimming video for Camera ">> \o cameraNum \o <<": ">> \o AttemptInfo

TrimDuration(stopTime, startTime) == stopTime - startTime - LeadMs

\* buildTrimmingArgs passing the duration in milliseconds to -ss
buildTrimmingArgsMillis(trimDuration, currentFileName, finalFileName) ==
    [y |-> TRUE,
     ss |-> IF trimDuration > 0 THEN <<trimDuration>> ELSE <<>>,
     i |-> currentFileName, c |-> "copy", out |-> finalFileName]

\* buildTrimmingArgs: -y [-ss <seconds>] -i <input> -c copy <output>
buildTrimmingArgs(trimDuration, currentFileName, finalFileName) ==
    [y |-> TRUE,
     ss |-> IF trimDuration > 0 THEN <<trimDuration \div 1000>> ELSE <<>>,
     i |-> currentFileName, c |-> "copy", out |-> finalFileName]

\* cmd.Run() of the transcoder: it fails when the input is missing or still locked
FfmpegOk(args) == args.i \in DOMAIN fs /\ locked[args.i] = 0

FfmpegOutput(args) ==
    [origin |-> fs[args.i].origin, take |-> fs[args.i].take, container |-> "mp4",
     cut |-> IF args.ss = <<>> THEN 0 ELSE args.ss[1]]

WriteFile(f, l, path, content) ==
    /\ fs' = [p \in DOMAIN f \cup {path} |-> IF p = path THEN content ELSE f[p]]
    /\ locked' = [p \in DOMAIN l \cup {path} |-> IF p = path THEN 0 ELSE l[p]]

RemoveFiles(f, l, paths) ==
    /\ fs' = [p \in DOMAIN f \ paths |-> f[p]]
    /\ locked' = [p \in DOMAIN l \ paths |-> l[p]]

\* the session directory named by the session as it is
SessionDirUnsanitized ==
    Join(videoDir, IF st.CurrentSession = <<>> THEN <<"unsorted">> ELSE st.CurrentSession)

SessionDir ==
    LET sessionDir == IF st.CurrentSession = <<>> THEN <<"unsorted">>
                      ELSE st.CurrentSession
    IN  Join(videoDir, ReplaceAll(sessionDir, " ", "_"))

\* time.Now().Format("2006-01-02_15h04m05s"): the clock at second granularity
Timestamp == <<ToString(now)>>

\* the base file name with the athlete's name as it is
BaseFileNameUnsanitized ==
    Timestamp \o <<"_">> \o st.CurrentAthlete
        \o <<"_", st.CurrentLiftType, "_attempt", ToString(st.CurrentAttempt)>>

BaseFileName ==
    Timestamp \o <<"_">> \o ReplaceAll(st.CurrentAthlete, " ", "_")
        \o <<"_", st.CurrentLiftType, "_attempt", ToString(st.CurrentAttempt)>>

FinalFileName(trimmedFile) ==
    LET cameraNum == TrimSuffix(TrimPrefix(Base(trimmedFile), Camera), Mp4)
    IN  Join(loc.fullSessionDir, loc.baseFileName \o <<"_">> \o Camera \o cameraNum \o Mp4)

\* the environment may make a filesystem call fail, within its budget
Faults == IF envLeft > 0 THEN {FALSE, TRUE} ELSE {FALSE}

\* time.Sleep(3 * time.Second)
SettleDelay ==
    /\ ~crashed /\ pc = "X_sleep"
    /\ now' = now + SettleSeconds
    /\ pc' = "X_readdir"
    /\ trace' = Append(trace, [n |-> opCount, e |-> "sleep", secs |-> SettleSeconds])
    /\ UNCHANGED <<bg, variant, conn, requestID, wire, inbox, currentOpChan,
                   listener, crashed, call, arg, loc, st, fs, locked, dirs, opCount,
                   envLeft, answers, delivered>>

\* discovery without the test for an empty list: both loops run zero times
AfterDiscoveryUnchecked(files) == IF Len(files) = 0 THEN "X_mkdir" ELSE "X_trim"

\* after discovery: no file is an error
AfterDiscovery(files) == IF Len(files) = 0 THEN "idle" ELSE "X_trim"

\* os.ReadDir and the filter; part_002 computes the trim duration here, once
DiscoverFiles ==
    /\ ~crashed /\ pc = "X_readdir"
    /\ \E fault \in Faults :
          /\ envLeft' = IF fault THEN envLeft - 1 ELSE envLeft
          /\ IF fault
             THEN /\ pc' = "idle"
                  /\ trace' = Append(trace, Ret("failed to read captures directory"))
                  /\ UNCHANGED loc
             ELSE LET entries == ReadDir(captureDir)
                      files == Discover(entries)
                      next == AfterDiscovery(files)
                  IN  /\ pc' = next
                      /\ loc' = [loc EXCEPT
                                    !.sourceFiles = files, !.i = 1,
                                    !.startTime = st.LastStartTime,
                                    !.stopTime = st.LastTimerStopTime,
                                    !.trimDuration = TrimDuration(st.LastTimerStopTime,
                                                                  st.LastStartTime)]
                      /\ trace' = trace \o
                            <<[n |-> opCount, e |-> "readdir",
                               found |-> SelectSeq(entries, IsCameraFile),
                               files |-> files]>> \o
                            (IF next = "idle" THEN <<Ret("no camera files found")>>
                             ELSE <<>>)
    /\ UNCHANGED <<bg, variant, conn, requestID, wire, inbox, currentOpChan,
                   listener, crashed, call, arg, st, fs, locked, dirs, now, opCount,
                   answers, delivered>>

\* the first pass going on to the next file after a failed run
AfterTrimContinuing(ok, i, n) == IF i < n THEN "X_trim" ELSE "X_mkdir"

\* after the transcoder ran on file i of n
AfterTrim(ok, i, n) == IF ~ok THEN "idle" ELSE IF i < n THEN "X_trim" ELSE "X_mkdir"

\* part_002 removes the source file right after a successful run of the
\* transcoder; recorder.go removes the source files in its final pass
RemoveAfterTrim(ok) == ok /\ variant = "part_002"

\* one iteration of the first pass: status, arguments, transcoder
TrimFile ==
    /\ ~crashed /\ pc = "X_trim"
    /\ LET sourceFile == loc.sourceFiles[loc.i]
           cameraNum == CameraNum(sourceFile)
           trimmedFile == TrimmedFile(sourceFile)
           startTime == IF variant = "recorder" THEN st.LastStartTime ELSE loc.startTime
           stopTime == IF variant = "recorder" THEN st.LastTimerStopTime
                       ELSE loc.stopTime
           trimDuration == IF variant = "recorder"
                           THEN TrimDuration(stopTime, startTime)
                           ELSE loc.trimDuration
           args == buildTrimmingArgs(trimDuration, sourceFile, trimmedFile)
           ok == FfmpegOk(args)
           next == AfterTrim(ok, loc.i, Len(loc.sourceFiles))
           run == [n |-> opCount, e |-> "ffmpeg", args |-> args, ok |-> ok,
                   start |-> startTime, stop |-> stopTime,
                   athlete |-> st.CurrentAthlete, liftType |-> st.CurrentLiftType,
                   attempt |-> st.CurrentAttempt,
                   present |-> args.i \in DOMAIN fs,
                   lock |-> IF args.i \in DOMAIN fs THEN locked[args.i] ELSE 0]
       IN  /\ pc' = next
           /\ loc' = [loc EXCEPT !.trimmedFiles = Append(@, trimmedFile),
                                 !.i = IF next = "X_trim" THEN @ + 1 ELSE 1]
           /\ \E fault \in (IF RemoveAfterTrim(ok) THEN Faults ELSE {FALSE}) :
                 LET f1 == IF ok
                           THEN [p \in DOMAIN fs \cup {trimmedFile} |->
                                   IF p = trimmedFile THEN FfmpegOutput(args) ELSE fs[p]]
                           ELSE fs
                     l1 == IF ok
                           THEN [p \in DOMAIN locked \cup {trimmedFile} |->
                                   IF p = trimmedFile THEN 0 ELSE locked[p]]
                           ELSE [p \in DOMAIN locked |->
                                   IF p = args.i /\ locked[p] > 0
                                   THEN locked[p] - 1 ELSE locked[p]]
                 IN  /\ envLeft' = IF fault THEN envLeft - 1 ELSE envLeft
                     /\ IF RemoveAfterTrim(ok) /\ ~fault
                        THEN RemoveFiles(f1, l1, {sourceFile})
                        ELSE fs' = f1 /\ locked' = l1
                     /\ trace' = trace \o
                           <<SendStatus("Trimming", TrimmingMessage(cameraNum)), run>> \o
                           (IF RemoveAfterTrim(ok)
                            THEN <<[n |-> opCount, e |-> "remove", file |-> sourceFile,
                                    ok |-> sourceFile \in DOMAIN f1 /\ ~fault]>>
                            ELSE <<>>) \o
                           (IF ~ok THEN <<Ret("failed to trim video")>> ELSE <<>>)
    /\ UNCHANGED <<bg, variant, conn, requestID, wire, inbox, currentOpChan,
                   listener, crashed, call, arg, st, dirs, now, opCount,
                   answers, delivered>>

\* os.MkdirAll of the session directory, then the timestamp and base file name
MakeSessionDir ==
    /\ ~crashed /\ pc = "X_mkdir"
    /\ \E fault \in Faults :
          /\ envLeft' = IF fault THEN envLeft - 1 ELSE envLeft
          /\ IF fault
             THEN /\ pc' = "idle"
                  /\ trace' = Append(trace, Ret("failed to create session directory"))
                  /\ UNCHANGED <<loc, dirs>>
             ELSE /\ pc' = "X_copy"
                  /\ dirs' = dirs \cup {SessionDir}
                  /\ loc' = [loc EXCEPT !.fullSessionDir = SessionDir,
                                        !.baseFileName = BaseFileName, !.i = 1]
                  /\ trace' = Append(trace,
                        [n |-> opCount, e |-> "mkdir", dir |-> SessionDir,
                         session |-> st.CurrentSession, ts |-> now,
                         athlete |-> st.CurrentAthlete, liftType |-> st.CurrentLiftType,
                         attempt |-> st.CurrentAttempt])
    /\ UNCHANGED <<bg, variant, conn, requestID, wire, inbox, currentOpChan,
                   listener, crashed, call, arg, st, fs, locked, now, opCount,
                   answers, delivered>>

\* the second pass left after its first file
AfterCopyFirstOnly(ok, i, n) ==
    IF ~ok THEN "idle"
    ELSE IF variant = "recorder" THEN "X_sleep2" ELSE "idle"

\* after file i of n was copied (or not): part_002 has no final pass
AfterCopy(ok, i, n) ==
    IF ~ok THEN "idle"
    ELSE IF i < n THEN "X_copy"
    ELSE IF variant = "recorder" THEN "X_sleep2" ELSE "idle"

\* one iteration of the second pass: open the trimmed file, create the final
\* file, copy
CopyFile ==
    /\ ~crashed /\ pc = "X_copy"
    /\ LET trimmedFile == loc.trimmedFiles[loc.i]
           finalFileName == FinalFileName(trimmedFile)
           opened == trimmedFile \in DOMAIN fs
       IN  \E fault \in (IF opened THEN Faults ELSE {FALSE}) :
           LET ok == opened /\ ~fault
               next == AfterCopy(ok, loc.i, Len(loc.trimmedFiles))
           IN  /\ envLeft' = IF fault THEN envLeft - 1 ELSE envLeft
               /\ pc' = next
               /\ loc' = [loc EXCEPT !.i = IF next = "X_copy" THEN @ + 1 ELSE 1]
               /\ IF ok THEN WriteFile(fs, locked, finalFileName, fs[trimmedFile])
                        ELSE UNCHANGED <<fs, locked>>
               /\ trace' = trace \o
                     <<[n |-> opCount, e |-> "copy", from |-> trimmedFile,
                        to |-> finalFileName, ok |-> ok,
                        existed |-> finalFileName \in DOMAIN fs]>> \o
                     (IF ~ok THEN <<Ret(IF opened
                                        THEN "failed to create destination file"
                                        ELSE "failed to open source file")>>
                      ELSE IF next = "idle"
                      THEN <<SendStatus("Ready", <<"Videos ready">>), Ret("nil")>>
                      ELSE <<>>)
    /\ UNCHANGED <<bg, variant, conn, requestID, wire, inbox, currentOpChan,
                   listener, crashed, call, arg, st, dirs, now, opCount,
                   answers, delivered>>

\* time.Sleep(5 * time.Second)
CleanupDelay ==
    /\ ~crashed /\ pc = "X_sleep2"
    /\ now' = now + CleanupSeconds
    /\ pc' = "X_remove"
    /\ trace' = Append(trace, [n |-> opCount, e |-> "sleep", secs |-> CleanupSeconds])
    /\ UNCHANGED <<bg, variant, conn, requestID, wire, inbox, currentOpChan,
                   listener, crashed, call, arg, loc, st, fs, locked, dirs, opCount,
                   envLeft, answers, delivered>>

Range(q) == {q[k] : k \in 1..Len(q)}

\* a failed removal made an error of the operation
AfterRemoveFatal(failed) ==
    IF failed THEN <<Ret("failed to remove source file")>>
    ELSE <<SendStatus("Ready", <<"Videos ready">>), Ret("nil")>>

\* after the removals of the final pass: a failed removal is only logged
AfterRemove(failed) == <<SendStatus("Ready", <<"Videos ready">>), Ret("nil")>>

\* the final pass of recorder.go: remove the source files (a failure is
\* logged), publish Ready, return nil
RemoveSources ==
    /\ ~crashed /\ pc = "X_remove"
    /\ \E kept \in {{}} \cup (IF envLeft > 0 THEN {{f} : f \in Range(loc.sourceFiles)}
                              ELSE {}) :
          /\ envLeft' = envLeft - Cardinality(kept)
          /\ RemoveFiles(fs, locked, Range(loc.sourceFiles) \ kept)
          /\ trace' = trace \o
                [k \in 1..Len(loc.sourceFiles) |->
                    [n |-> opCount, e |-> "remove", file |-> loc.sourceFiles[k],
                     ok |-> loc.sourceFiles[k] \in DOMAIN fs
                            /\ loc.sourceFiles[k] \notin kept]] \o
                AfterRemove(kept # {})
    /\ pc' = "idle"
    /\ UNCHANGED <<bg, variant, conn, requestID, wire, inbox, currentOpChan,
                   listener, crashed, call, arg, loc, st, dirs, now, opCount,
                   answers, delivered>>

----------------------------------------------------------------------------
(* The specification *)

Init ==
    /\ variant \in {"recorder", "part_002"}
    /\ conn = "closed"
    /\ requestID = 0
    /\ wire = <<>>
    /\ inbox = <<>>
    /\ currentOpChan = <<>>
    /\ listener = "none"
    /\ crashed = FALSE
    /\ pc = "boot"
    /\ call = NoCall
    /\ arg = NoArg
    /\ loc = NoLoc
    /\ st = [CurrentAthlete |-> <<>>, CurrentLiftType |-> "", CurrentAttempt |-> 0,
             CurrentSession |-> <<>>, LastStartTime |-> 0, LastTimerStopTime |-> 0]
    /\ fs = <<>>
    /\ locked = <<>>
    /\ dirs = {}
    /\ now = 0
    /\ opCount = 0
    /\ envLeft = MaxEnv
    /\ answers = {}
    /\ delivered = {}
    /\ bg = NoBackground
    /\ trace = <<>>

Next ==
    \/ Connect
    \/ listen
    \/ TriggerHotkeySend
    \/ TriggerHotkeyReceive
    \/ OnAttemptStart
    \/ OnDecision
    \/ OnSessionChanged
    \/ OnForceStop
    \/ SettleDelay
    \/ DiscoverFiles
    \/ TrimFile
    \/ MakeSessionDir
    \/ CopyFile
    \/ CleanupDelay
    \/ RemoveSources
    \/ OBSIdentify
    \/ OBSExecute
    \/ OBSReject
    \/ OBSUnexpected
    \/ OBSDrop

Spec == Init /\ [][Next]_vars

----------------------------------------------------------------------------
(* The recorder with more than one goroutine: the events are delivered, and
   ForceStopRecordings is called, while an event handler is still running.
   Nothing in recorder.go or configurator.go makes a caller wait: the only
   lock is the one sendMessage holds while it writes. *)

\* the positions of StopRecording from its first sleep to its last copy
Pipeline == {"X_sleep", "X_readdir", "X_trim", "X_mkdir", "X_copy"}

\* ForceStopRecordings on another goroutine, up to the receive of TriggerHotkey
ForceStopConcurrentSend ==
    /\ ~crashed /\ conn = "open" /\ pc \notin {"boot", "idle"}
    /\ bg.force = "none"
    /\ sendMessage(Request("OBS_KEY_F8"), TRUE)
    /\ bg' = [bg EXCEPT !.force = "waiting",
                        !.call = [key |-> "OBS_KEY_F8", rid |-> requestID + 1]]
    /\ UNCHANGED <<variant, conn, inbox, currentOpChan, listener, crashed, pc, call,
                   arg, loc, st, fs, locked, dirs, now, opCount, envLeft, answers,
                   delivered, trace>>

\* ForceStopRecordings on another goroutine: return <-client.currentOpChan,
\* the error is logged
ForceStopConcurrentReceive ==
    /\ ~crashed /\ bg.force = "waiting"
    /\ currentOpChan # <<>>
    /\ currentOpChan' = Tail(currentOpChan)
    /\ bg' = [bg EXCEPT !.force = "done", !.call = NoCall]
    /\ UNCHANGED <<variant, conn, requestID, wire, inbox, listener, crashed, pc,
                   call, arg, loc, st, fs, locked, dirs, now, opCount, envLeft,
                   answers, delivered, trace>>

\* the event-delivery goroutine writes the state while StopRecording runs:
\* the attempt of an AttemptStart event, or the stop time of a DecisionGiven
StateWrite ==
    /\ ~crashed /\ pc \in Pipeline
    /\ bg.writes < MaxWrites
    /\ bg' = [bg EXCEPT !.writes = @ + 1]
    /\ \/ \E ev \in AttemptEvents :
             st' = [st EXCEPT !.CurrentAthlete = ev.athlete,
                              !.CurrentLiftType = ev.liftType,
                              !.CurrentAttempt = ev.attempt]
       \/ \E t \in StopTimes : st' = [st EXCEPT !.LastTimerStopTime = t]
    /\ UNCHANGED <<variant, conn, requestID, wire, inbox, currentOpChan, listener,
                   crashed, pc, call, arg, loc, fs, locked, dirs, now, opCount,
                   envLeft, answers, delivered, trace>>

\* the same program in an environment without faults
InitConcurrent ==
    /\ variant \in {"recorder", "part_002"}
    /\ conn = "closed"
    /\ requestID = 0
    /\ wire = <<>>
    /\ inbox = <<>>
    /\ currentOpChan = <<>>
    /\ listener = "none"
    /\ crashed = FALSE
    /\ pc = "boot"
    /\ call = NoCall
    /\ arg = NoArg
    /\ loc = NoLoc
    /\ st = [CurrentAthlete |-> <<>>, CurrentLiftType |-> "", CurrentAttempt |-> 0,
             CurrentSession |-> <<>>, LastStartTime |-> 0, LastTimerStopTime |-> 0]
    /\ fs = <<>>
    /\ locked = <<>>
    /\ dirs = {}
    /\ now = 0
    /\ opCount = 0
    /\ envLeft = 0
    /\ answers = {}
    /\ delivered = {}
    /\ bg = NoBackground
    /\ trace = <<>>

\* the event handlers and a concurrent ForceStopRecordings
NextForceStop ==
    \/ Connect
    \/ listen
    \/ TriggerHotkeySend
    \/ TriggerHotkeyReceive
    \/ OnAttemptStart
    \/ OnDecision
    \/ SettleDelay
    \/ DiscoverFiles
    \/ TrimFile
    \/ MakeSessionDir
    \/ CopyFile
    \/ CleanupDelay
    \/ RemoveSources
    \/ OBSIdentify
    \/ OBSExecute
    \/ ForceStopConcurrentSend
    \/ ForceStopConcurrentReceive

SpecForceStop == InitConcurrent /\ [][NextForceStop]_vars

\* the event handlers and a concurrent write of the state
NextStateWrite ==
    \/ Connect
    \/ listen
    \/ TriggerHotkeySend
    \/ TriggerHotkeyReceive
    \/ OnAttemptStart
    \/ OnDecision
    \/ SettleDelay
    \/ DiscoverFiles
    \/ TrimFile
    \/ MakeSessionDir
    \/ CopyFile
    \/ CleanupDelay
    \/ RemoveSources
    \/ OBSIdentify
    \/ OBSExecute
    \/ StateWrite

SpecStateWrite == InitConcurrent /\ [][NextStateWrite]_vars

----------------------------------------------------------------------------
(* Properties *)

Idx == DOMAIN trace

\* the operations invoked so far, by kind
OpsOf(kind) == {trace[i].n : i \in {j \in Idx : trace[j].e = "invoke" /\ trace[j].op = kind}}

\* the positions of the events of kind e of operation n
At(n, e) == {i \in Idx : trace[i].n = n /\ trace[i].e = e}

CallAt(i, key, err) ==
    trace[i].e = "call" /\ trace[i].key = key /\ trace[i].err = err

StatusAt(i, phase) == trace[i].e = "status" /\ trace[i].phase = phase

Answered(rid) == \E a \in answers : a.rid = rid

\* operation n follows a StartRecording that returned nil
Armed(n) ==
    /\ n - 1 \in OpsOf("start")
    /\ \E i \in At(n - 1, "return") : trace[i].err = "nil"

\* C1 (as claimed): every TriggerHotkey call that returns on a message of the
\* capture tool returns on the response to its own request, never on the
\* identify acknowledgement or on another request's response, and returns nil
\* exactly when that request was answered with code 100
C1_OwnResponse ==
    \A i \in Idx :
        (trace[i].e = "call" /\ trace[i].from # "conn") =>
            /\ trace[i].from = "response"
            /\ trace[i].src = trace[i].rid
            /\ (trace[i].err = "nil") <=>
                   ([rid |-> trace[i].rid, key |-> trace[i].key, code |-> SuccessCode]
                        \in answers)

\* C2: in StartRecording the start request (F7) is written only after the
\* reset call (F6) returned nil; the Recording status is published at most
\* once, only after both calls returned nil, and only by StartRecording; the
\* operation returns nil exactly when it published Recording
C2_StartOrder ==
    /\ \A i \in Idx : StatusAt(i, "Recording") => trace[i].n \in OpsOf("start")
    /\ \A n \in OpsOf("start") :
          /\ \A i \in At(n, "send") :
                trace[i].key = "OBS_KEY_F7" =>
                    \E j \in At(n, "call") : j < i /\ CallAt(j, "OBS_KEY_F6", "nil")
          /\ \A i \in At(n, "status") :
                /\ trace[i].phase = "Recording"
                /\ \E j, k \in At(n, "call") :
                      /\ j < k /\ k < i
                      /\ CallAt(j, "OBS_KEY_F6", "nil")
                      /\ CallAt(k, "OBS_KEY_F7", "nil")
                /\ \A j \in At(n, "status") : j = i
          /\ \A i \in At(n, "return") :
                /\ (trace[i].err = "nil") <=> (\E j \in At(n, "status") : j < i)
                /\ \A j \in At(n, "status") : j < i

C2_Witness ==
    \E n \in OpsOf("start") :
        /\ \E i \in At(n, "return") : trace[i].err = "nil"
        /\ \E i \in At(n, "status") : trace[i].phase = "Recording"

\* C3 (as claimed): in StopRecording the reset request is written only once
\* the stop request has been answered, the settle delay starts only once the
\* reset request has been answered, the directory is read only after the
\* delay, and no transcoder run or copy comes before the delay
C3_StopOrder ==
    \A n \in {m \in OpsOf("stop") : Armed(m)} :
        /\ \A i \in At(n, "send") :
              trace[i].key = "OBS_KEY_F6" =>
                  \E j \in At(n, "send") :
                      j < i /\ trace[j].key = "OBS_KEY_F8" /\ Answered(trace[j].rid)
        /\ \A i \in At(n, "sleep") :
              trace[i].secs = SettleSeconds =>
                  \E j \in At(n, "send") :
                      j < i /\ trace[j].key = "OBS_KEY_F6" /\ Answered(trace[j].rid)
        /\ \A i \in At(n, "readdir") \cup At(n, "ffmpeg") \cup At(n, "copy") :
              \E j \in At(n, "sleep") :
                  j < i /\ trace[j].secs = SettleSeconds /\ trace[j].secs > 0

\* what holds of the order in StopRecording: the calls return in order, then
\* the delay, then discovery
C3_CallOrder ==
    \A n \in OpsOf("stop") :
        /\ \A i \in At(n, "sleep") :
              trace[i].secs = SettleSeconds =>
                  \E j, k \in At(n, "call") :
                      /\ j < k /\ k < i
                      /\ CallAt(j, "OBS_KEY_F8", "nil")
                      /\ CallAt(k, "OBS_KEY_F6", "nil")
        /\ \A i \in At(n, "readdir") \cup At(n, "ffmpeg") \cup At(n, "copy") :
              \E j \in At(n, "sleep") :
                  j < i /\ trace[j].secs = SettleSeconds /\ trace[j].secs > 0

C4_FailureWitness ==
    \E n \in OpsOf("stop") :
        /\ \E i \in At(n, "return") : trace[i].err # "nil"
        /\ \E r \in At(n, "ffmpeg") : trace[r].ok

\* C5 (as claimed): the process never dies, and no TriggerHotkey call waits
\* on a channel that nothing will ever write to again
C5_NeverCrashedNorBlocked ==
    /\ ~crashed
    /\ ~(call # NoCall /\ currentOpChan = <<>> /\ listener = "exited")

\* C6: whenever the transcoder is run for an attempt whose start time is
\* positive and max(0, stop - start - 5000) is positive, it is given a seek
\* of that offset divided by 1000 (whole seconds)
C6_TrimOffset ==
    \A i \in Idx :
        (trace[i].e = "ffmpeg" /\ trace[i].start > 0) =>
            LET d == trace[i].stop - trace[i].start - 5000
                trimOffsetMs == IF d > 0 THEN d ELSE 0
            IN  trimOffsetMs > 0 => trace[i].args.ss = <<trimOffsetMs \div 1000>>

C6_Witness ==
    \E i \in Idx :
        /\ trace[i].e = "ffmpeg" /\ trace[i].start = 1000 /\ trace[i].stop = 9000
        /\ trace[i].args.ss = <<3>>

\* an offset that is not a whole number of seconds: 3700 ms, a seek of 3
C6_TruncationWitness ==
    \E i \in Idx :
        /\ trace[i].e = "ffmpeg" /\ trace[i].start = 1000 /\ trace[i].stop = 9700
        /\ Len(trace[i].args.ss) = 1

\* C7 (as claimed): when the start time is 0 the transcoder is never run
\* with a seek offset
C7_NoSeekWithoutStart ==
    \A i \in Idx :
        (trace[i].e = "ffmpeg" /\ trace[i].start = 0 /\ Armed(trace[i].n)) =>
            trace[i].args.ss = <<>>

\* C8 (as claimed): a file on which the transcoder fails fewer than 5 times
\* before it succeeds does not make StopRecording return an error
C8_RetryRecovers ==
    \A i \in Idx :
        (trace[i].e = "ffmpeg" /\ ~trace[i].ok /\ trace[i].present /\ trace[i].lock < 5
            /\ Armed(trace[i].n)) =>
            \A j \in At(trace[i].n, "return") : trace[j].err # "failed to trim video"

\* C9 (as claimed): a transcoder run that fails makes StopRecording return
\* the trim error with no further run, copy or Ready status; and when
\* StopRecording returns that error, the directory entry that was discovered
\* for the failed run is still in the capture directory
C9_RawFilePreserved ==
    /\ \A i \in Idx :
          (trace[i].e = "ffmpeg" /\ ~trace[i].ok) =>
              /\ \E j \in At(trace[i].n, "return") :
                    j > i /\ trace[j].err = "failed to trim video"
              /\ \A j \in At(trace[i].n, "ffmpeg") \cup At(trace[i].n, "copy") : j <= i
              /\ \A j \in At(trace[i].n, "status") : trace[j].phase # "Ready"
    /\ (Len(trace) >= 2 /\ trace[Len(trace)].e = "return"
          /\ trace[Len(trace)].err = "failed to trim video"
          /\ Armed(trace[Len(trace)].n)) =>
          LET n == trace[Len(trace)].n
              r == SetMax(At(n, "ffmpeg"))
              d == SetMax(At(n, "readdir"))
              k == Cardinality(At(n, "ffmpeg"))
          IN  /\ ~trace[r].ok
              /\ Join(captureDir, trace[d].found[k]) \in DOMAIN fs

\* what holds of recorder.go: no source file is removed by a StopRecording
\* that returns the trim error
C9_RecorderKeepsSources ==
    \A i \in Idx :
        (trace[i].e = "return" /\ trace[i].err = "failed to trim video"
            /\ variant = "recorder") =>
            \A j \in At(trace[i].n, "remove") : FALSE

\* C10 (as claimed): a StopRecording that returns nil after discovering N
\* files has written N distinct final files
C10_OneArtifactPerRawFile ==
    \A n \in {m \in OpsOf("stop") : Armed(m)} :
        (\E i \in At(n, "return") : trace[i].err = "nil") =>
            \A d \in At(n, "readdir") :
                Cardinality({trace[c].to : c \in At(n, "copy")}) = Len(trace[d].found)

\* C11: when the discovery of a StopRecording finds no camera file, the
\* operation returns the discovery error at once: no transcoder run, no
\* session directory, no copy, no removal and no status is published by it
C11_NoFileNoArtifact ==
    \A n \in OpsOf("stop") :
        \A d \in At(n, "readdir") :
            Len(trace[d].found) = 0 =>
                /\ \E i \in At(n, "return") :
                      /\ i > d /\ trace[i].err = "no camera files found"
                      /\ \A j \in At(n, "return") : j = i
                /\ At(n, "ffmpeg") = {} /\ At(n, "mkdir") = {}
                /\ At(n, "copy") = {} /\ At(n, "remove") = {}
                /\ At(n, "status") = {}

C11_Witness ==
    \E n \in OpsOf("stop") :
        /\ Armed(n)
        /\ \E d \in At(n, "readdir") : Len(trace[d].found) = 0
        /\ \E i \in At(n, "return") : trace[i].err = "no camera files found"

\* no StartRecording has returned nil before operation n
NeverStarted(n) ==
    \A m \in OpsOf("start") :
        m < n => \A i \in At(m, "return") : trace[i].err # "nil"

\* C12 (as claimed): a ForceStopRecordings called when nothing is recording
\* sends no request to the capture tool and waits for no answer
C12_ForceStopNoOp ==
    \A n \in OpsOf("force") :
        NeverStarted(n) => At(n, "send") = {} /\ At(n, "call") = {}

\* a session or athlete name with each space replaced by an underscore
Underscored(name) == [k \in 1..Len(name) |-> IF name[k] = " " THEN "_" ELSE name[k]]

\* C13: the session directory is videos/unsorted when the session name is
\* empty and otherwise videos/<name with each space replaced by "_">
\* ("Group A" gives Group_A); it exists once MkdirAll returned; and every
\* copy of the operation writes directly into it
C13_SessionDirectory ==
    /\ \A i \in Idx :
          trace[i].e = "mkdir" =>
              /\ trace[i].dir =
                    <<"videos", "/">> \o (IF trace[i].session = <<>> THEN <<"unsorted">>
                                          ELSE Underscored(trace[i].session))
              /\ trace[i].session = <<"Group", " ", "A">> =>
                    trace[i].dir = <<"videos", "/", "Group", "_", "A">>
              /\ trace[i].dir \in dirs
    /\ \A c \in Idx :
          trace[c].e = "copy" =>
              \E m \in At(trace[c].n, "mkdir") :
                  /\ m < c
                  /\ HasPrefix(trace[c].to, trace[m].dir \o <<"/">>)
                  /\ ~Contains(SliceFrom(trace[c].to, Len(trace[m].dir) + 1), <<"/">>)

C13_Witness ==
    \E c \in Idx :
        /\ trace[c].e = "copy" /\ trace[c].ok
        /\ \E m \in At(trace[c].n, "mkdir") :
              trace[m].session = <<"Group", " ", "A">>

\* C14: every final file is named
\* <dir>/<timestamp>_<athlete, spaces as "_">_<liftType>_attempt<N>_Camera<c>.mp4
\* where c is the camera index of the raw file it was made from and the
\* timestamp is the one taken once in the operation; a copy that succeeded
\* left the final file in place
C14_FinalFileName ==
    \A c \in Idx :
        trace[c].e = "copy" =>
            \E m \in At(trace[c].n, "mkdir") :
            \E r \in At(trace[c].n, "ffmpeg") :
                /\ r < m /\ m < c
                /\ trace[r].ok /\ trace[r].args.out = trace[c].from
                /\ \A m2 \in At(trace[c].n, "mkdir") : m2 = m
                /\ LET raw == trace[r].args.i
                       index == raw[Len(raw) - 1]
                   IN  /\ raw[Len(raw)] = ".flv" /\ raw[Len(raw) - 2] = "Camera"
                       /\ trace[c].to =
                             trace[m].dir \o <<"/", ToString(trace[m].ts), "_">>
                               \o Underscored(trace[m].athlete)
                               \o <<"_", trace[m].liftType, "_attempt",
                                     ToString(trace[m].attempt),
                                     "_", "Camera", index, ".mp4">>
                /\ trace[c].ok => trace[c].to \in DOMAIN fs

\* AttemptStart("Jane Doe", "SNATCH", 1, 1000), then a decision with the one
\* raw file Camera1.flv: the final file, and the raw file gone at the return
C14_Witness ==
    /\ Len(trace) >= 2 /\ trace[Len(trace)].e = "return" /\ trace[Len(trace)].err = "nil"
    /\ Armed(trace[Len(trace)].n)
    /\ <<"Captures", "/", "Camera", "1", ".flv">> \notin DOMAIN fs
    /\ \E c \in At(trace[Len(trace)].n, "copy") :
       \E m \in At(trace[Len(trace)].n, "mkdir") :
       \E d \in At(trace[Len(trace)].n, "readdir") :
          /\ trace[d].found = << <<"Camera", "1", ".flv">> >>
          /\ trace[c].ok
          /\ trace[c].to = <<"videos", "/", "unsorted", "/", ToString(trace[m].ts), "_",
                             "Jane", "_", "Doe", "_", "SNATCH", "_attempt", "1",
                             "_", "Camera", "1", ".mp4">>

\* C15 (as claimed): Connect has returned only if the identify handshake is
\* no longer pending: the identify message has been processed and its
\* acknowledgement read
C15_ConnectAfterHandshake ==
    pc # "boot" =>
        /\ \A k \in DOMAIN wire : wire[k].op # 1
        /\ \A k \in DOMAIN inbox : inbox[k] # Identified

\* C16 (as claimed): after the receive loop observed a read error, no
\* TriggerHotkey call is left waiting for an answer that cannot come
C16_NoCallBlockedAfterBreak ==
    ~(conn = "dropped" /\ listener = "exited" /\ call # NoCall /\ currentOpChan = <<>>)

\* what holds after a break: no TriggerHotkey call returns nil
C16_NoSuccessAfterBreak ==
    [][(conn = "dropped" /\ listener = "exited" /\ call # NoCall /\ call' = NoCall)
          => trace'[Len(trace) + 1].err # "nil"]_vars

\* C17 (as claimed): a StopRecording called before any StartRecording has
\* succeeded sends no request, reads no directory, runs no transcoder, copies
\* and removes no file and publishes no status
C17_StopIgnoredWhenIdle ==
    \A n \in OpsOf("stop") :
        NeverStarted(n) =>
            /\ At(n, "send") = {} /\ At(n, "call") = {}
            /\ At(n, "readdir") = {} /\ At(n, "ffmpeg") = {}
            /\ At(n, "copy") = {} /\ At(n, "remove") = {}
            /\ At(n, "status") = {}

\* C18: a StopRecording publishes only Trimming and Ready, at most one Ready,
\* and no Trimming after Ready; when it returns nil it has published one
\* Trimming per discovered file and then exactly one Ready, after the
\* transcoder run and the copy of every discovered file; and the
\* StartRecording before it published exactly one Recording, before these
C18_StatusOrder ==
    \A n \in OpsOf("stop") :
        LET Trimmings == {j \in At(n, "status") : trace[j].phase = "Trimming"}
            Readies == {j \in At(n, "status") : trace[j].phase = "Ready"}
        IN  /\ At(n, "status") = Trimmings \cup Readies
            /\ Cardinality(Readies) <= 1
            /\ \A r \in Readies : \A j \in Trimmings : j < r
            /\ (\E i \in At(n, "return") : trace[i].err = "nil") =>
                  /\ Cardinality(Readies) = 1
                  /\ \E d \in At(n, "readdir") :
                        /\ Len(trace[d].found) >= 1
                        /\ Cardinality(Trimmings) = Len(trace[d].found)
                        /\ Cardinality(At(n, "ffmpeg")) = Len(trace[d].found)
                        /\ Cardinality(At(n, "copy")) = Len(trace[d].found)
                  /\ \A r \in Readies :
                        \A k \in At(n, "ffmpeg") \cup At(n, "copy") : k < r /\ trace[k].ok
                  /\ Armed(n) =>
                        /\ Cardinality(At(n - 1, "status")) = 1
                        /\ \A j \in At(n - 1, "status") :
                              /\ trace[j].phase = "Recording"
                              /\ \A k \in At(n, "status") : j < k

C18_Witness ==
    \E n \in OpsOf("stop") :
        /\ Armed(n)
        /\ \E i \in At(n, "return") : trace[i].err = "nil"
        /\ \E d \in At(n, "readdir") : Len(trace[d].found) = 2
        /\ \E r \in At(n, "status") : trace[r].phase = "Ready"

C20_NoTranscoderWithoutOffset ==
    \A i \in Idx :
        (trace[i].e = "ffmpeg" /\ Armed(trace[i].n) /\ trace[i].start > 0) =>
            trace[i].stop - trace[i].start - 5000 > 0

\* the key of each logical action: reset, start, stop
ActionKeys(op) ==
    CASE op = "start" -> {"OBS_KEY_F6", "OBS_KEY_F7"}
      [] op = "stop" -> {"OBS_KEY_F8", "OBS_KEY_F6"}
      [] op = "force" -> {"OBS_KEY_F8"}

\* what sendIdentify builds: rpcVersion is the single field of the data object
IdentifyData ==
    [rpcVersion |-> <<1>>, requestType |-> <<>>, keyId |-> <<>>, requestId |-> <<>>]

\* C21 (as claimed): the identify message on the wire is exactly
\* {"op":1,"d":{"rpcVersion":1}}, its data object holding the single field
\* rpcVersion; every other message is a request of op 6 with requestType
\* TriggerHotkeyByKeySequence, a requestId and the keyId of its action
C21_MessageShapes ==
    \A k \in DOMAIN wire :
        /\ wire[k].op \in {1, 6}
        /\ wire[k].op = 1 => wire[k].d = IdentifyData
        /\ wire[k].op = 6 =>
              /\ wire[k].d.requestType = <<"TriggerHotkeyByKeySequence">>
              /\ wire[k].d.requestId # <<>>
              /\ wire[k].d.rpcVersion = <<>>
              /\ \A i \in Idx :
                    (trace[i].e = "send" /\ trace[i].rid = wire[k].rid) =>
                        /\ wire[k].d.keyId = <<trace[i].key>>
                        /\ \E op \in {"start", "stop", "force"} :
                              /\ trace[i].n \in OpsOf(op)
                              /\ trace[i].key \in ActionKeys(op)

\* what holds of the messages: the requests are as claimed, and the identify
\* message carries rpcVersion 1 together with the requestId "1" that
\* sendMessage writes into every data object
C21_RequestShapes ==
    \A k \in DOMAIN wire :
        /\ wire[k].op \in {1, 6}
        /\ wire[k].op = 1 =>
              wire[k].d = [IdentifyData EXCEPT !.requestId = <<"1">>]
        /\ wire[k].op = 6 =>
              /\ wire[k].d.requestType = <<"TriggerHotkeyByKeySequence">>
              /\ wire[k].d.requestId = <<ToString(wire[k].rid)>>
              /\ wire[k].rid > 1
              /\ wire[k].d.keyId \in {<<"OBS_KEY_F6">>, <<"OBS_KEY_F7">>, <<"OBS_KEY_F8">>}

\* C22 (as claimed): at most one TriggerHotkey call is waiting for its answer
\* at any time, whatever the interleaving of the event handlers and
\* ForceStopRecordings; and no request is written while an earlier request
\* is still on its way to the capture tool
C22_OneOutstandingCall ==
    /\ ~(call # NoCall /\ bg.call # NoCall)
    /\ Cardinality({k \in DOMAIN wire : wire[k].op = 6}) <= 1

\* the reads of the state by the transcoding pass and by the naming of the
\* final files in StopRecording n
AttemptSeen(i) ==
    [athlete |-> trace[i].athlete, liftType |-> trace[i].liftType,
     attempt |-> trace[i].attempt]

\* C23 (as claimed): no write of the state falls between two reads of one
\* StopRecording run: every transcoder run of the operation saw the same
\* athlete, lift, attempt, start and stop time, and the final file names
\* are built from that same athlete, lift and attempt
C23_ConsistentState ==
    \A n \in {m \in OpsOf("stop") : Armed(m)} :
        /\ \A r1, r2 \in At(n, "ffmpeg") :
              /\ AttemptSeen(r1) = AttemptSeen(r2)
              /\ trace[r1].start = trace[r2].start
              /\ trace[r1].stop = trace[r2].stop
        /\ \A r \in At(n, "ffmpeg") :
              \A m \in At(n, "mkdir") : AttemptSeen(r) = AttemptSeen(m)

\* C24: when the stop call or the reset call of StopRecording returns an
\* error, the operation returns that call's error at once: every later event
\* of the operation is that one return, so the remaining request is not
\* written, nothing is discovered, transcoded, copied or removed, and no
\* status is published
C24_HotkeyErrorEndsStop ==
    \A n \in OpsOf("stop") :
        \A i \in At(n, "call") :
            trace[i].err # "nil" =>
                /\ i < Len(trace)
                /\ trace[i + 1].n = n /\ trace[i + 1].e = "return"
                /\ trace[i + 1].err =
                      (IF trace[i].key = "OBS_KEY_F8"
                       THEN "failed to send F8 hotkey to OBS"
                       ELSE "failed to send F6 hotkey to OBS")
                /\ \A j \in Idx : (trace[j].n = n /\ j > i) => j = i + 1
                /\ \A e \in {"sleep", "readdir", "ffmpeg", "mkdir", "copy",
                             "remove", "status"} : At(n, e) = {}

\* the stop call of a StopRecording that follows a successful start failed
C24_Witness ==
    \E n \in OpsOf("stop") :
        /\ Armed(n)
        /\ \E i \in At(n, "call") : trace[i].key = "OBS_KEY_F8" /\ trace[i].err # "nil"
        /\ \E i \in At(n, "return") : trace[i].err = "failed to send F8 hotkey to OBS"

\* the reset call of a StopRecording failed after its stop call returned nil
C24_ResetWitness ==
    \E n \in OpsOf("stop") :
        /\ \E i \in At(n, "call") : CallAt(i, "OBS_KEY_F8", "nil")
        /\ \E i \in At(n, "call") : trace[i].key = "OBS_KEY_F6" /\ trace[i].err # "nil"

\* C25: ForceStopRecordings triggers the stop hotkey only, at most once, and
\* returns nil whatever the call returned; it reads no directory, runs no
\* transcoder, copies and removes no file, publishes no status, and leaves
\* the state, the session directories and the locals of StopRecording as
\* they were
C25_ForceStopOnlyStops ==
    /\ [](\A n \in OpsOf("force") :
            /\ \A i \in At(n, "send") \cup At(n, "call") : trace[i].key = "OBS_KEY_F8"
            /\ Cardinality(At(n, "send")) <= 1 /\ Cardinality(At(n, "call")) <= 1
            /\ \A i \in At(n, "return") : trace[i].err = "nil"
            /\ \A e \in {"sleep", "readdir", "ffmpeg", "mkdir", "copy",
                         "remove", "status"} : At(n, e) = {})
    /\ [][(pc = "F_F8" \/ pc' = "F_F8") => (st' = st /\ dirs' = dirs /\ loc' = loc)]_vars

\* a ForceStopRecordings whose call returned an error has returned
C25_Witness ==
    \E n \in OpsOf("force") :
        /\ \E i \in At(n, "call") : trace[i].err # "nil"
        /\ \E i \in At(n, "return") : trace[i].err = "nil"

\* the handler of the last event has just returned from a StartRecording
\* that returned nil
StartJustSucceeded ==
    /\ pc = "idle" /\ trace # <<>>
    /\ trace[Len(trace)].e = "return" /\ trace[Len(trace)].err = "nil"
    /\ trace[Len(trace)].n \in OpsOf("start")

C27_FinalArtifactImmutable ==
    \A n \in {m \in OpsOf("stop") : Armed(m)} :
        /\ \A c \in At(n, "copy") : trace[c].ok => ~trace[c].existed
        /\ \A c1, c2 \in At(n, "copy") :
              (trace[c1].ok /\ trace[c2].ok /\ c1 # c2) => trace[c1].to # trace[c2].to

\* C28: when a transcoder run of StopRecording fails, the operation makes no
\* session directory and copies nothing: no final file is written for any
\* file of the attempt, those transcoded before the failure included
C28_AllOrNothing ==
    \A n \in OpsOf("stop") :
        (\E r \in At(n, "ffmpeg") : ~trace[r].ok) =>
            /\ At(n, "mkdir") = {} /\ At(n, "copy") = {}
            /\ \A i \in At(n, "status") : trace[i].phase = "Trimming"
            /\ \A i \in At(n, "return") : trace[i].err = "failed to trim video"

\* the second file of an attempt failed after the first had been transcoded
C28_Witness ==
    \E n \in OpsOf("stop") :
        /\ Armed(n)
        /\ \E r1, r2 \in At(n, "ffmpeg") : r1 < r2 /\ trace[r1].ok /\ ~trace[r2].ok
        /\ \E i \in At(n, "return") : trace[i].err = "failed to trim video"

\* the attempt as the final file names spell it
NamePart(i) ==
    ReplaceAll(trace[i].athlete, " ", "_")
        \o <<"_", trace[i].liftType, "_attempt", ToString(trace[i].attempt), "_">>

\* the attempt as the Trimming status spells it
StatusPart(i) ==
    ReplaceAll(trace[i].athlete, "_", " ")
        \o <<" - ", trace[i].liftType, " attempt ", ToString(trace[i].attempt)>>

\* C29 (as claimed): the transcoder runs of one StopRecording are all given
\* the same seek, and the attempt each Trimming status names is the attempt
\* the final file names are built from, also when the state is written
\* while the operation runs
C29_OneOffsetOneDescriptor ==
    \A n \in {m \in OpsOf("stop") : Armed(m)} :
        /\ \A r1, r2 \in At(n, "ffmpeg") : trace[r1].args.ss = trace[r2].args.ss
        /\ \A r \in At(n, "ffmpeg") :
              /\ StatusAt(r - 1, "Trimming")
              /\ HasSuffix(trace[r - 1].msg, StatusPart(r))
              /\ \A m \in At(n, "mkdir") : \A c \in At(n, "copy") :
                    HasPrefix(Base(trace[c].to),
                              <<ToString(trace[m].ts), "_">> \o NamePart(r))

\* C30 (as claimed): every path given to the transcoder as its input, and
\* every path removed, is the path of a directory entry the discovery of the
\* same StopRecording found
C30_DiscoveredPaths ==
    \A n \in {m \in OpsOf("stop") : Armed(m)} :
        \A d \in At(n, "readdir") :
            LET discovered == {Join(captureDir, trace[d].found[k]) :
                                  k \in 1..Len(trace[d].found)}
            IN  /\ \A r \in At(n, "ffmpeg") : trace[r].args.i \in discovered
                /\ \A r \in At(n, "remove") : trace[r].file \in discovered

\* what holds of recorder.go: the k-th transcoder run reads the k-th
\* discovered entry, and the final pass removes the discovered entries
C30_RecorderPaths ==
    \A n \in OpsOf("stop") :
        variant = "recorder" =>
            \A d \in At(n, "readdir") :
                LET discovered == {Join(captureDir, trace[d].found[k]) :
                                      k \in 1..Len(trace[d].found)}
                IN  /\ \A r \in At(n, "ffmpeg") : trace[r].args.i \in discovered
                    /\ \A r \in At(n, "remove") : trace[r].file \in discovered

\* C31: the messages are written to the connection in the order of their
\* requestIds, and no two carry the same one, whichever goroutines call
\* sendMessage: the messages on the wire have strictly increasing ids, each
\* the decimal string of a value the counter has reached, every request
\* already answered had a smaller id than any message still on the wire, and
\* a message newly written carries the counter as the same step incremented it
C31_IdsInWireOrder ==
    /\ [](/\ \A j, k \in DOMAIN wire : j < k => wire[j].rid < wire[k].rid
          /\ \A k \in DOMAIN wire :
                /\ wire[k].rid >= 1 /\ wire[k].rid <= requestID
                /\ wire[k].d.requestId = <<ToString(wire[k].rid)>>
                /\ \A a \in answers : a.rid < wire[k].rid
          /\ \A a, b \in answers : a.rid = b.rid => a = b)
    /\ [][Len(wire') > Len(wire) =>
            /\ requestID' = requestID + 1
            /\ wire' = Append(wire, wire'[Len(wire')])
            /\ wire'[Len(wire')].rid = requestID']_vars

\* the event handler and a concurrent ForceStopRecordings have both written
\* a request, and both requests are still on the wire
C31_Witness ==
    /\ call # NoCall /\ bg.call # NoCall
    /\ \E j, k \in DOMAIN wire :
          /\ j # k
          /\ {wire[j].rid, wire[k].rid} = {call.rid, bg.call.rid}

====
